---- MODULE Spec2Model ----
(***************************************************************************)
(* FlowForge backend (src/.backend/main.py, src/.backend/schemas.py).      *)
(*                                                                         *)
(* The service is a set of FastAPI handlers over a PostgreSQL database     *)
(* reached through psycopg2.  A psycopg2 connection is not in autocommit   *)
(* mode: the first statement opens a transaction, whose writes are visible *)
(* to other connections only after conn.commit().  A handler is therefore  *)
(* modelled as the sequence of its database-visible steps: the statement   *)
(* it executes (cur.execute) and the end of its transaction (conn.commit / *)
(* conn.rollback), each with the Python code that surrounds it.            *)
(*                                                                         *)
(* Strings that the code transforms (the slug, the title) are sequences of *)
(* one-character strings; lower() and strip() are computed on them.        *)
(*                                                                         *)
(* Errors the database raises for reasons outside the request (a lost      *)
(* connection, a full disk) are not modelled; the errors modelled are the  *)
(* ones a request's own statement provokes: the unique violation, a        *)
(* project_id that is no uuid, and a statement the server rejects.         *)
(***************************************************************************)
EXTENDS Integers, Sequences, FiniteSets, TLC

\* ------------------------------------------------------------------ bounds

\* Number of admin requests of one run (each has its own slot); public reads
\* are not counted.
MaxReqs == 2

\* Rows of project 1 in each child table of the catalogs InitQuery draws.
MaxChildRows == 2

Reqs == 1..MaxReqs

\* ------------------------------------------------------------------ values

\* Python None / SQL NULL.
NULL == "<null>"

\* ---- the strings the requests carry (inputs)

\* "  My-Slug "
SlugMixed == <<" ", " ", "M", "y", "-", "S", "l", "u", "g", " ">>
\* "my-slug"
SlugPlain == <<"m", "y", "-", "s", "l", "u", "g">>
\* "docs"
SlugOther == <<"d", "o", "c", "s">>
\* "ab"
SlugShort == <<"a", "b">>

RawSlugs == {SlugMixed, SlugPlain, SlugOther, SlugShort}

\* The slugs the single-item read is asked for.
ReadSlugs == {SlugPlain, SlugOther}

\* "Flow", "ab"
Titles == {<<"F", "l", "o", "w">>, <<"a", "b">>}

\* Values of the X-Admin-Token header (None: the header is missing).
HeaderTokens == {NULL, "s3cret", "wrong"}

\* Values of the ADMIN_TOKEN environment variable (None: unset).
EnvTokens == {NULL, "", "s3cret"}

\* ------------------------------------------------------------------ str methods

Upper == <<"A", "B", "C", "D", "E", "F", "G", "H", "I", "J", "K", "L", "M",
           "N", "O", "P", "Q", "R", "S", "T", "U", "V", "W", "X", "Y", "Z">>
Lower == <<"a", "b", "c", "d", "e", "f", "g", "h", "i", "j", "k", "l", "m",
           "n", "o", "p", "q", "r", "s", "t", "u", "v", "w", "x", "y", "z">>

Whitespace == {" ", "\t", "\n", "\r"}

\* str.lower() on one character.
LowerChar(c) ==
    IF \E i \in DOMAIN Upper : Upper[i] = c
    THEN Lower[CHOOSE i \in DOMAIN Upper : Upper[i] = c]
    ELSE c

\* str.lower()
lower(s) == [i \in DOMAIN s |-> LowerChar(s[i])]

RECURSIVE lstrip(_)
lstrip(s) ==
    IF s # <<>> /\ Head(s) \in Whitespace THEN lstrip(Tail(s)) ELSE s

RECURSIVE rstrip(_)
rstrip(s) ==
    IF s # <<>> /\ s[Len(s)] \in Whitespace
    THEN rstrip(SubSeq(s, 1, Len(s) - 1))
    ELSE s

\* str.strip()
strip(s) == rstrip(lstrip(s))

\* main.py:214, the slug argument of the INSERT: slug.lower().strip()
NormalizeSlug(slug) == strip(lower(slug))

\* ------------------------------------------------------------------ schemas.py

\* schemas.py:11-12, Field(..., min_length=3)
min_length == 3

\* ProjectBase / ProjectCreate: the two constrained fields.  main.py neither
\* imports schemas.py nor names ProjectCreate in create_project's signature.
ProjectCreate(title, slug) == Len(title) >= min_length /\ Len(slug) >= min_length

\* create_project's parameters are plain `str` / `bool` query parameters
\* (main.py:195-200): FastAPI checks their presence and type only, and every
\* request of the model carries all of them.
CreateParamsValid(title, slug) == TRUE

\* ------------------------------------------------------------------ admin_auth

\* An admin_auth that lets a request without the header through.
admin_auth_MissingHeaderPasses(env, x_admin_token) ==
    IF env = NULL \/ env = "" THEN 500
    ELSE IF x_admin_token # NULL /\ x_admin_token # env THEN 401
    ELSE 0

\* main.py:27-34.  0: the dependency returns; otherwise the HTTPException's
\* status.  `not ADMIN_TOKEN` is true of None and of the empty string.
admin_auth(env, x_admin_token) ==
    IF env = NULL \/ env = "" THEN 500
    ELSE IF x_admin_token # env THEN 401
    ELSE 0

\* ------------------------------------------------------------------ state

VARIABLES
    ADMIN_TOKEN,         \* os.getenv("ADMIN_TOKEN") of the server process
    projects,            \* table projects: the committed rows
    project_details,     \* table project_details (0 or 1 row per project)
    project_tech_stack,  \* table project_tech_stack
    project_steps,       \* table project_steps
    project_results,     \* table project_results
    project_links,       \* table project_links
    nextId,              \* the database's generator of projects.id
    now,                 \* the database's clock (projects.created_at)
    pc,                  \* each request's position in its handler
    req,                 \* each request's parameters
    resp,                \* each request's HTTP response
    conn,                \* each request's connection: "none", "open", "closed"
    txn,                 \* each connection's uncommitted write
    read,                \* the latest public read: its request, response and
                         \* connection
    toggled              \* per project id: the flag it was created with and
                         \* the number of committed publish toggles

tables == <<project_details, project_tech_stack, project_steps,
            project_results, project_links>>

vars == <<ADMIN_TOKEN, projects, project_details, project_tech_stack,
          project_steps, project_results, project_links, nextId, now,
          pc, req, resp, conn, txn, read, toggled>>

\* SQL NULL in an integer column (ids and positions are positive).
NULL_INT == 0 - 1

NoRow == [id |-> NULL_INT, title |-> <<>>, slug |-> <<>>,
          is_published |-> FALSE, created_at |-> NULL_INT]

\* The path parameter project_id is a string; the column it is compared with
\* is a uuid (schemas.py:32), so a string that is no uuid makes the statement
\* raise.  well_formed: the string parses; id: the id it denotes.
PathIds == {[well_formed |-> TRUE, id |-> i] : i \in {1, 2}}
           \cup {[well_formed |-> FALSE, id |-> NULL_INT]}

NoReq == [kind |-> "none", token |-> NULL, title |-> <<>>, slug |-> <<>>,
          is_published |-> FALSE,
          project_id |-> [well_formed |-> FALSE, id |-> NULL_INT]]

NoResp == [status |-> 0, project_id |-> NULL_INT, is_published |-> FALSE,
           data |-> <<>>]

NoTxn == [op |-> "none", found |-> FALSE, row |-> NoRow]

NoRead == [kind |-> "none", slug |-> <<>>, status |-> 0, data |-> <<>>,
           conn |-> "none"]

\* Requests arrive in the order of their slots.
Arrives(r) == pc[r] = "idle" /\ \A q \in Reqs : q < r => pc[q] # "idle"

\* ------------------------------------------------------------------ PROJECT_QUERY

\* The row a LEFT JOIN supplies for a project without a matching child row:
\* every column NULL.
NullDetails == [project_id |-> NULL_INT, challenge |-> NULL, solution |-> NULL,
                timeline |-> NULL, before_text |-> NULL, after_text |-> NULL,
                code_snippet |-> NULL]
NullTech == [id |-> NULL_INT, project_id |-> NULL_INT, tech |-> NULL]
NullStep == [id |-> NULL_INT, project_id |-> NULL_INT, title |-> NULL,
             description |-> NULL, position |-> NULL_INT]
NullResult == [id |-> NULL_INT, project_id |-> NULL_INT, label |-> NULL,
               value |-> NULL]
NullLink == [id |-> NULL_INT, project_id |-> NULL_INT, label |-> NULL,
             url |-> NULL, icon |-> NULL]

\* LEFT JOIN child ON child.project_id = p.id, for one project row.
LeftJoin(child, nullRow, p) ==
    LET matching == {c \in child : c.project_id = p.id}
    IN  IF matching = {} THEN {nullRow} ELSE matching

\* main.py:134-139: the joined rows of one project row, one per combination
\* of its child rows.
JoinedRows(p) ==
    {[p |-> p, d |-> d, t |-> t, s |-> s, r |-> r, l |-> l] :
        d \in LeftJoin(project_details, NullDetails, p),
        t \in LeftJoin(project_tech_stack, NullTech, p),
        s \in LeftJoin(project_steps, NullStep, p),
        r \in LeftJoin(project_results, NullResult, p),
        l \in LeftJoin(project_links, NullLink, p)}

\* The rows of a set, in the order the executor happens to deliver them.
RECURSIVE SetToSeq(_)
SetToSeq(S) ==
    IF S = {} THEN <<>>
    ELSE LET x == CHOOSE x \in S : TRUE IN <<x>> \o SetToSeq(S \ {x})

\* DISTINCT: each value once.
RECURSIVE Distinct(_)
Distinct(vals) ==
    IF vals = <<>> THEN <<>>
    ELSE LET rest == Distinct(SubSeq(vals, 1, Len(vals) - 1))
             v == vals[Len(vals)]
         IN  IF \E i \in DOMAIN rest : rest[i] = v THEN rest ELSE Append(rest, v)

\* ORDER BY s.position, on joined rows.
RECURSIVE OrderByPosition(_)
OrderByPosition(rows) ==
    IF rows = <<>> THEN <<>>
    ELSE LET i == CHOOSE i \in DOMAIN rows :
                     \A k \in DOMAIN rows : rows[i].s.position <= rows[k].s.position
             rest == [k \in 1..(Len(rows) - 1) |-> IF k < i THEN rows[k] ELSE rows[k + 1]]
         IN  <<rows[i]>> \o OrderByPosition(rest)

\* jsonb_agg over no input row is NULL, not an empty array.
JsonNull == [is_null |-> TRUE, array |-> <<>>]

\* jsonb_agg([DISTINCT] value) over the values of the rows the FILTER kept.
jsonb_agg(distinct, vals) ==
    IF vals = <<>> THEN JsonNull
    ELSE [is_null |-> FALSE, array |-> IF distinct THEN Distinct(vals) ELSE vals]

\* COALESCE(aggregate, '[]')
COALESCE(agg, default) == IF agg.is_null THEN default ELSE agg.array

\* main.py:86-93
details(d) ==
    [challenge |-> d.challenge, solution |-> d.solution, timeline |-> d.timeline,
     before |-> d.before_text, after |-> d.after_text,
     code_snippet |-> d.code_snippet]

\* main.py:95-99
tech_stack(G) ==
    LET kept == SelectSeq(SetToSeq(G), LAMBDA j : j.t.tech # NULL)
    IN  COALESCE(jsonb_agg(TRUE, [i \in DOMAIN kept |-> kept[i].t.tech]), <<>>)

\* main.py:101-111
steps(G) ==
    LET kept == OrderByPosition(SelectSeq(SetToSeq(G), LAMBDA j : j.s.id # NULL_INT))
    IN  COALESCE(jsonb_agg(TRUE, [i \in DOMAIN kept |->
                     [title |-> kept[i].s.title, text |-> kept[i].s.description,
                      position |-> kept[i].s.position]]), <<>>)

\* main.py:113-121
results(G) ==
    LET kept == SelectSeq(SetToSeq(G), LAMBDA j : j.r.id # NULL_INT)
    IN  COALESCE(jsonb_agg(TRUE, [i \in DOMAIN kept |->
                     [label |-> kept[i].r.label, value |-> kept[i].r.value]]), <<>>)

\* main.py:123-132
links(G) ==
    LET kept == SelectSeq(SetToSeq(G), LAMBDA j : j.l.id # NULL_INT)
    IN  COALESCE(jsonb_agg(TRUE, [i \in DOMAIN kept |->
                     [label |-> kept[i].l.label, url |-> kept[i].l.url,
                      icon |-> kept[i].l.icon]]), <<>>)

\* One output row: the select list of main.py:77-132 over one group.  (The
\* columns category, short_desc and cover_color are copied from the project
\* row like title; no statement of the service reads them otherwise.)
Document(G) ==
    LET j == CHOOSE j \in G : TRUE
    IN  [id |-> j.p.id, title |-> j.p.title, slug |-> j.p.slug,
         created_at |-> j.p.created_at,
         details |-> details(j.d),
         tech_stack |-> tech_stack(G), steps |-> steps(G),
         results |-> results(G), links |-> links(G)]

\* GROUP BY p.id, d.project_id: the groups of the joined rows of the project
\* rows ps.
Groups(ps) ==
    UNION {LET J == JoinedRows(p)
           IN  {{j \in J : j.d.project_id = k} : k \in {j.d.project_id : j \in J}}
           : p \in ps}

\* ORDER BY p.created_at DESC
RECURSIVE OrderByCreatedDesc(_)
OrderByCreatedDesc(docs) ==
    IF docs = {} THEN <<>>
    ELSE LET x == CHOOSE x \in docs : \A y \in docs : x.created_at >= y.created_at
         IN  <<x>> \o OrderByCreatedDesc(docs \ {x})

\* The aggregate calls of PROJECT_QUERY as written: whether DISTINCT, the
\* argument expressions and the ORDER BY expressions inside the call.
Aggregates ==
    {[column |-> "tech_stack", distinct |-> TRUE,
      args |-> {"t.tech"}, order_by |-> {}],
     [column |-> "steps", distinct |-> TRUE,
      args |-> {"jsonb_build_object('title', s.title, 'text', s.description, 'position', s.position)"},
      order_by |-> {"s.position"}],
     [column |-> "results", distinct |-> TRUE,
      args |-> {"jsonb_build_object('label', r.label, 'value', r.value)"},
      order_by |-> {}],
     [column |-> "links", distinct |-> TRUE,
      args |-> {"jsonb_build_object('label', l.label, 'url', l.url, 'icon', l.icon)"},
      order_by |-> {}]}

\* PostgreSQL's analysis of an aggregate call: with DISTINCT, every ORDER BY
\* expression must be one of the call's arguments ("in an aggregate with
\* DISTINCT, ORDER BY expressions must appear in argument list", SQLSTATE
\* 42P10); otherwise the statement is rejected before it runs.
AggregateAccepted(a) == a.distinct => a.order_by \subseteq a.args

StatementAccepted == \A a \in Aggregates : AggregateAccepted(a)

\* cur.execute(PROJECT_QUERY + " WHERE ... GROUP BY p.id, d.project_id ..."),
\* ps being the project rows the WHERE clause keeps.  raised: psycopg2 raises
\* the server's error out of cur.execute.
ExecuteProjectQuery(ps) ==
    IF StatementAccepted
    THEN [raised |-> FALSE,
          rows |-> OrderByCreatedDesc({Document(G) : G \in Groups(ps)})]
    ELSE [raised |-> TRUE, rows |-> <<>>]

\* ------------------------------------------------------------------ the database

\* A projects table without the unique index on slug.
UniqueViolation_NoIndex(slug) == FALSE

\* The unique index on projects.slug, as the INSERT of a connection sees it:
\* a committed row already holds the slug (errors.UniqueViolation, main.py:225).
UniqueViolation(slug) == \E row \in projects : row.slug = slug

\* An uncommitted INSERT of another connection holds the slug: the unique
\* index makes this INSERT wait for that transaction to end.
SlugPending(slug, r) ==
    \E q \in Reqs \ {r} : txn[q].op = "insert" /\ txn[q].row.slug = slug

\* An UPDATE that does not take the row's lock (a read followed by a write).
RowLocked_None(id, r) == FALSE

\* An uncommitted UPDATE of another connection holds the row's lock: this
\* UPDATE waits for that transaction to end and then reads the row again.
RowLocked(id, r) ==
    \E q \in Reqs \ {r} : txn[q].op = "update" /\ txn[q].found /\ txn[q].row.id = id

\* main.py:247, SET is_published = NOT is_published
ToggledValue(is_published) == ~is_published

\* main.py:153, WHERE p.is_published = TRUE
PublishedRows == {p \in projects : p.is_published = TRUE}

\* main.py:174, WHERE p.slug = %s AND p.is_published = TRUE
PublishedRowsBySlug(slug) == {p \in PublishedRows : p.slug = slug}

\* ------------------------------------------------------------------ handlers

\* A request to an admin route that admin_auth rejects (main.py:27-34, as the
\* dependency of main.py:201 and main.py:240): the handler's body never runs.
AdminRejected(r, kind, token) ==
    /\ Arrives(r)
    /\ admin_auth(ADMIN_TOKEN, token) # 0
    /\ req' = [req EXCEPT ![r] = [NoReq EXCEPT !.kind = kind, !.token = token]]
    /\ resp' = [resp EXCEPT ![r] = [NoResp EXCEPT !.status = admin_auth(ADMIN_TOKEN, token)]]
    /\ pc' = [pc EXCEPT ![r] = "done"]
    /\ UNCHANGED <<ADMIN_TOKEN, projects, tables, nextId, now, conn, txn, read, toggled>>

\* create_project, main.py:193-221: the dependency, get_connection and the
\* INSERT; on errors.UniqueViolation the except and finally clauses
\* (main.py:225-231).
CreateExecute(r, token, title, slug, is_published) ==
    /\ Arrives(r)
    /\ admin_auth(ADMIN_TOKEN, token) = 0
    /\ CreateParamsValid(title, slug)
    /\ ~SlugPending(NormalizeSlug(slug), r)
    /\ req' = [req EXCEPT ![r] = [NoReq EXCEPT !.kind = "create", !.token = token,
                                     !.title = title, !.slug = slug,
                                     !.is_published = is_published]]
    /\ IF UniqueViolation(NormalizeSlug(slug))
       THEN /\ txn' = [txn EXCEPT ![r] = NoTxn]                       \* conn.rollback()
            /\ resp' = [resp EXCEPT ![r] = [NoResp EXCEPT !.status = 409]]
            /\ conn' = [conn EXCEPT ![r] = "closed"]                  \* finally
            /\ pc' = [pc EXCEPT ![r] = "done"]
            /\ UNCHANGED <<nextId, now>>
       ELSE /\ txn' = [txn EXCEPT ![r] =
                          [op |-> "insert", found |-> TRUE,
                           row |-> [id |-> nextId, title |-> title,
                                    slug |-> NormalizeSlug(slug),
                                    is_published |-> is_published,
                                    created_at |-> now]]]
            /\ nextId' = nextId + 1
            /\ now' = now + 1
            /\ conn' = [conn EXCEPT ![r] = "open"]
            /\ pc' = [pc EXCEPT ![r] = "insert_pending"]
            /\ UNCHANGED resp
    /\ UNCHANGED <<ADMIN_TOKEN, projects, tables, read, toggled>>

\* create_project, main.py:221-223 and 229-231: fetchone, commit, return,
\* finally.
CreateCommit(r) ==
    /\ pc[r] = "insert_pending"
    /\ projects' = projects \cup {txn[r].row}
    /\ toggled' = toggled @@ (txn[r].row.id :>
                      [original |-> txn[r].row.is_published, count |-> 0])
    /\ resp' = [resp EXCEPT ![r] = [NoResp EXCEPT !.status = 200,
                                                   !.project_id = txn[r].row.id]]
    /\ txn' = [txn EXCEPT ![r] = NoTxn]
    /\ conn' = [conn EXCEPT ![r] = "closed"]
    /\ pc' = [pc EXCEPT ![r] = "done"]
    /\ UNCHANGED <<ADMIN_TOKEN, tables, nextId, now, req, read>>

\* toggle_publish, main.py:237-250: the dependency, get_connection and the
\* UPDATE.  A project_id that is no uuid makes cur.execute raise; no except
\* or finally clause is around it, so cur.close() and conn.close()
\* (main.py:254-255) are not reached.
ToggleExecute(r, token, project_id) ==
    /\ Arrives(r)
    /\ admin_auth(ADMIN_TOKEN, token) = 0
    /\ req' = [req EXCEPT ![r] = [NoReq EXCEPT !.kind = "toggle", !.token = token,
                                     !.project_id = project_id]]
    /\ conn' = [conn EXCEPT ![r] = "open"]
    /\ IF ~project_id.well_formed
       THEN /\ resp' = [resp EXCEPT ![r] = [NoResp EXCEPT !.status = 500]]
            /\ pc' = [pc EXCEPT ![r] = "done"]
            /\ UNCHANGED txn
       ELSE /\ ~RowLocked(project_id.id, r)
            /\ LET hit == {row \in projects : row.id = project_id.id}
               IN  txn' = [txn EXCEPT ![r] =
                      IF hit = {}
                      THEN [op |-> "update", found |-> FALSE, row |-> NoRow]
                      ELSE LET row == CHOOSE row \in hit : TRUE
                           IN  [op |-> "update", found |-> TRUE,
                                row |-> [row EXCEPT !.is_published =
                                            ToggledValue(row.is_published)]]]
            /\ pc' = [pc EXCEPT ![r] = "update_pending"]
            /\ UNCHANGED resp
    /\ UNCHANGED <<ADMIN_TOKEN, projects, tables, nextId, now, read, toggled>>

\* toggle_publish, main.py:252-260: fetchone, commit, close, and the response.
ToggleCommit(r) ==
    /\ pc[r] = "update_pending"
    /\ IF txn[r].found
       THEN /\ projects' = {row \in projects : row.id # txn[r].row.id} \cup {txn[r].row}
            /\ toggled' = [toggled EXCEPT ![txn[r].row.id].count = @ + 1]
            /\ resp' = [resp EXCEPT ![r] =
                          [NoResp EXCEPT !.status = 200,
                                         !.is_published = txn[r].row.is_published]]
       ELSE /\ resp' = [resp EXCEPT ![r] = [NoResp EXCEPT !.status = 404]]
            /\ UNCHANGED <<projects, toggled>>
    /\ txn' = [txn EXCEPT ![r] = NoTxn]
    /\ conn' = [conn EXCEPT ![r] = "closed"]
    /\ pc' = [pc EXCEPT ![r] = "done"]
    /\ UNCHANGED <<ADMIN_TOKEN, tables, nextId, now, req, read>>

\* The part of a public read after get_connection (main.py:148-161 and
\* 169-187): when cur.execute raises, cur.close() and conn.close() are not
\* reached and the framework answers 500.
PublicRead(kind, slug, executed, notFound) ==
    /\ read' = IF executed.raised
               THEN [kind |-> kind, slug |-> slug, status |-> 500,
                     data |-> <<>>, conn |-> "open"]
               ELSE IF notFound /\ executed.rows = <<>>
               THEN [kind |-> kind, slug |-> slug, status |-> 404,
                     data |-> <<>>, conn |-> "closed"]
               ELSE [kind |-> kind, slug |-> slug, status |-> 200,
                     data |-> executed.rows, conn |-> "closed"]
    /\ UNCHANGED <<ADMIN_TOKEN, projects, tables, nextId, now, pc, req, resp,
                   conn, txn, toggled>>

\* get_projects, main.py:146-161
GetProjects ==
    PublicRead("get_projects", <<>>, ExecuteProjectQuery(PublishedRows), FALSE)

\* get_project, main.py:167-187 (LIMIT 1 and fetchone: the slug is unique, so
\* the statement yields at most one row)
GetProject(slug) ==
    PublicRead("get_project", slug,
               ExecuteProjectQuery(PublishedRowsBySlug(slug)), TRUE)

\* ------------------------------------------------------------------ specifications

InitRequests ==
    /\ pc = [r \in Reqs |-> "idle"]
    /\ req = [r \in Reqs |-> NoReq]
    /\ resp = [r \in Reqs |-> NoResp]
    /\ conn = [r \in Reqs |-> "none"]
    /\ txn = [r \in Reqs |-> NoTxn]
    /\ read = NoRead

\* A project created before the run: "Flow", slug "my-slug", unpublished.
SeedRow == [id |-> 1, title |-> <<"F", "l", "o", "w">>, slug |-> SlugPlain,
            is_published |-> FALSE, created_at |-> 1]

\* The service starts on an empty catalog or on one that holds SeedRow; no
\* route of the service writes the child tables.
Init ==
    /\ ADMIN_TOKEN \in EnvTokens
    /\ projects \in {{}, {SeedRow}}
    /\ project_details = {}
    /\ project_tech_stack = {}
    /\ project_steps = {}
    /\ project_results = {}
    /\ project_links = {}
    /\ nextId = 1 + Cardinality(projects)
    /\ now = 1 + Cardinality(projects)
    /\ toggled = [id \in {row.id : row \in projects} |->
                    [original |-> FALSE, count |-> 0]]
    /\ InitRequests

Next ==
    \/ \E r \in Reqs, kind \in {"create", "toggle"}, token \in HeaderTokens :
          AdminRejected(r, kind, token)
    \/ \E r \in Reqs, token \in HeaderTokens, title \in Titles, slug \in RawSlugs,
          is_published \in BOOLEAN :
          CreateExecute(r, token, title, slug, is_published)
    \/ \E r \in Reqs : CreateCommit(r)
    \/ \E r \in Reqs, token \in HeaderTokens, project_id \in PathIds :
          ToggleExecute(r, token, project_id)
    \/ \E r \in Reqs : ToggleCommit(r)
    \/ GetProjects
    \/ \E slug \in ReadSlugs : GetProject(slug)

Spec == Init /\ [][Next]_vars

\* ---- the aggregation query on a catalog with child rows

\* A second project, published and without child rows.
OtherRow == [id |-> 2, title |-> <<"F", "l", "o", "w">>, slug |-> SlugOther,
             is_published |-> TRUE, created_at |-> 2]

\* A catalog of two projects.  Project 1 has nt, ns, nr and nl rows in the
\* four one-to-many tables and possibly a details row; with dup its rows of
\* one table all carry the same values.  The steps' positions descend with
\* the row ids.
InitQuery ==
    /\ ADMIN_TOKEN = "s3cret"
    /\ \E is_published \in BOOLEAN :
          projects = {[SeedRow EXCEPT !.is_published = is_published], OtherRow}
    /\ \E hasDetails \in BOOLEAN :
          project_details =
              IF hasDetails
              THEN {[project_id |-> 1, challenge |-> "c", solution |-> "s",
                     timeline |-> NULL, before_text |-> "b", after_text |-> "a",
                     code_snippet |-> NULL]}
              ELSE {}
    /\ \E dup \in BOOLEAN, nt \in 0..MaxChildRows, ns \in 0..MaxChildRows,
          nr \in 0..MaxChildRows, nl \in 0..MaxChildRows :
          /\ project_tech_stack =
                {[id |-> i, project_id |-> 1,
                  tech |-> IF dup THEN "1" ELSE ToString(i)] : i \in 1..nt}
          /\ project_steps =
                {[id |-> i, project_id |-> 1,
                  title |-> IF dup THEN "1" ELSE ToString(i),
                  description |-> "text",
                  position |-> IF dup THEN 1 ELSE ns + 1 - i] : i \in 1..ns}
          /\ project_results =
                {[id |-> i, project_id |-> 1,
                  label |-> IF dup THEN "1" ELSE ToString(i),
                  value |-> "v"] : i \in 1..nr}
          /\ project_links =
                {[id |-> i, project_id |-> 1,
                  label |-> IF dup THEN "1" ELSE ToString(i),
                  url |-> "u", icon |-> NULL] : i \in 1..nl}
    /\ nextId = 3
    /\ now = 3
    /\ toggled = [id \in {1, 2} |-> [original |-> FALSE, count |-> 0]]
    /\ InitRequests

NextQuery ==
    \/ GetProjects
    \/ \E slug \in ReadSlugs : GetProject(slug)

SpecQuery == InitQuery /\ [][NextQuery]_vars

\* ------------------------------------------------------------------ properties

\* The request's header equals the configured, non-empty server secret.
Authorized(token) == ADMIN_TOKEN # NULL /\ ADMIN_TOKEN # "" /\ token = ADMIN_TOKEN

\* The normalised form the specification names: trimmed and lowercased.
Normalized(slug) == lower(strip(slug))

\* The project has no row in any child table.
NoChildRows(row) ==
    \A child \in {project_details, project_tech_stack, project_steps,
                  project_results, project_links} :
        \A c \in child : c.project_id # row.id

\* The latest read asked for this project: the list, or the project's slug.
ReadCovers(row) ==
    \/ read.kind = "get_projects"
    \/ read.kind = "get_project" /\ read.slug = row.slug

\* The project that request r created (r a create answered 200) is, while
\* published, returned by the single-item read of its normalised slug.
Retrievable(r) ==
    \A row \in projects :
        (/\ row.id = resp[r].project_id
         /\ row.is_published
         /\ read.kind = "get_project"
         /\ read.slug = Normalized(req[r].slug))
        => /\ read.status = 200
           /\ Len(read.data) = 1
           /\ read.data[1].id = row.id
           /\ read.data[1].slug = read.slug

\* ---- C1
ReadShowsOnlyPublished ==
    /\ \A i \in DOMAIN read.data :
          \E row \in projects : row.id = read.data[i].id /\ row.is_published
    /\ (read.kind = "get_project"
        /\ ~\E row \in projects : row.slug = read.slug /\ row.is_published)
       => read.status = 404

\* C1: every public read answers with published projects only, and a
\* single-item read of a slug that no published project has answers 404.
C1_PublicReadsShowOnlyPublished == [][read' # read => ReadShowsOnlyPublished']_vars

\* ---- C2
\* C2: a request that has finished, successfully or not, holds no open
\* connection.
C2_ConnectionReleased ==
    /\ \A r \in Reqs : pc[r] = "done" => conn[r] # "open"
    /\ read.conn # "open"

\* ---- C3
\* C3: an authorized create whose normalised slug is already stored answers
\* 409, leaves the projects table as it was and leaves no pending insert.
C3_DuplicateSlugConflict ==
    [][\A r \in Reqs :
          (/\ pc[r] = "idle" /\ pc'[r] # "idle"
           /\ req'[r].kind = "create"
           /\ Authorized(req'[r].token)
           /\ \E row \in projects : row.slug = Normalized(req'[r].slug))
          => /\ resp'[r].status = 409
             /\ pc'[r] = "done"
             /\ txn'[r] = NoTxn
             /\ projects' = projects
             /\ \A row \in projects', other \in projects' :
                   row.slug = other.slug => row = other]_vars

\* A create of "  My-Slug " answered 409 while the only project of slug
\* "my-slug" is the one stored before.
C3_Witness ==
    \E r \in Reqs :
        /\ pc[r] = "done" /\ req[r].kind = "create" /\ req[r].slug = SlugMixed
        /\ resp[r].status = 409
        /\ Cardinality({row \in projects : row.slug = SlugPlain}) = 1

\* ---- C4
\* C4: an admin request that is not authorized answers 500 when the server
\* secret is unset or empty and 401 otherwise, and executes no statement;
\* only a request that is authorized changes the projects table.
C4_AdminOnlyMutation ==
    [][/\ \A r \in Reqs :
             (/\ pc[r] = "idle" /\ pc'[r] # "idle"
              /\ req'[r].kind \in {"create", "toggle"}
              /\ ~Authorized(req'[r].token))
             => /\ resp'[r].status =
                      (IF ADMIN_TOKEN = NULL \/ ADMIN_TOKEN = "" THEN 500 ELSE 401)
                /\ pc'[r] = "done"
                /\ txn' = txn
                /\ projects' = projects
       /\ projects' # projects
             => \E r \in Reqs : pc[r] # "done" /\ pc'[r] = "done"
                                /\ Authorized(req[r].token)]_vars

\* A create without the header was answered 401, and so was a toggle whose
\* header differs from the secret.
C4_Witness ==
    /\ \E r \in Reqs : /\ pc[r] = "done" /\ req[r].kind = "create"
                       /\ req[r].token = NULL /\ resp[r].status = 401
    /\ \E r \in Reqs : /\ pc[r] = "done" /\ req[r].kind = "toggle"
                       /\ req[r].token = "wrong" /\ resp[r].status = 401

\* ---- C5
\* The flag of every project is the flag it was created with, negated once
\* per committed toggle.
ToggleParity ==
    \A row \in projects :
        row.is_published = (IF toggled[row.id].count % 2 = 0
                            THEN toggled[row.id].original
                            ELSE ~toggled[row.id].original)

\* C5: every toggle that matched a row negates the row's flag as it stands
\* when the toggle commits and answers with the new value, so after k
\* toggles, in any interleaving, the flag is the original one exactly when k
\* is even.
C5_ToggleFlips ==
    [][/\ ToggleParity'
       /\ \A r \in Reqs :
             (pc[r] = "update_pending" /\ pc'[r] = "done" /\ txn[r].found)
             => \E old \in projects, new \in projects' :
                   /\ old.id = req[r].project_id.id
                   /\ new.id = old.id
                   /\ new.is_published = ~old.is_published
                   /\ resp'[r].status = 200
                   /\ resp'[r].is_published = new.is_published
                   /\ toggled'[old.id].count = toggled[old.id].count + 1]_vars

\* Two toggles of one project were answered and its flag is the original one.
C5_Witness ==
    \E row \in projects :
        /\ toggled[row.id].count = 2
        /\ row.is_published = toggled[row.id].original
        /\ \A r \in Reqs : /\ req[r].kind = "toggle" /\ resp[r].status = 200
                           /\ req[r].project_id.id = row.id

\* ---- C6
\* Every stored slug is its own normalised form and belongs to one project.
SlugsNormalizedAndUnique ==
    /\ \A row \in projects : row.slug = Normalized(row.slug)
    /\ \A row \in projects, other \in projects :
          row.slug = other.slug => row.id = other.id

\* A created project is stored under the normalised form of the slug sent.
StoredUnderNormalizedSlug ==
    \A r \in Reqs :
        (req[r].kind = "create" /\ resp[r].status = 200)
        => \E row \in projects : /\ row.id = resp[r].project_id
                                 /\ row.slug = Normalized(req[r].slug)

\* A project created with slug "  My-Slug " (and a title the schema admits)
\* is returned by the read of "my-slug".
MySlugRetrievable ==
    \A r \in Reqs :
        (/\ req[r].kind = "create" /\ resp[r].status = 200
         /\ req[r].slug = SlugMixed
         /\ ProjectCreate(req[r].title, req[r].slug))
        => Retrievable(r)

\* C6: stored slugs are normalised and unique, a create stores the project
\* under lower(trim(slug)), and a published project created with slug
\* "  My-Slug " is returned by the read of "my-slug".
C6_NormalizedSlugRetrievable ==
    [][/\ SlugsNormalizedAndUnique'
       /\ StoredUnderNormalizedSlug'
       /\ read' # read => MySlugRetrievable']_vars

\* ---- C7
\* C7: an authorized create whose title or slug is shorter than min_length
\* answers 422 and executes no insert.
C7_CreateValidatesSchema ==
    \A r \in Reqs :
        (/\ req[r].kind = "create"
         /\ Authorized(req[r].token)
         /\ (Len(req[r].title) < min_length \/ Len(req[r].slug) < min_length))
        => /\ resp[r].status = 422
           /\ txn[r].op = "none"

\* ---- C8
AllNullDetails ==
    [challenge |-> NULL, solution |-> NULL, timeline |-> NULL, before |-> NULL,
     after |-> NULL, code_snippet |-> NULL]

ChildlessShape ==
    \A row \in projects :
        (/\ row.is_published /\ NoChildRows(row) /\ ReadCovers(row)
         /\ ProjectCreate(row.title, row.slug))
        => \E i \in DOMAIN read.data :
              /\ read.data[i].id = row.id
              /\ read.data[i].tech_stack = <<>>
              /\ read.data[i].steps = <<>>
              /\ read.data[i].results = <<>>
              /\ read.data[i].links = <<>>
              /\ read.data[i].details = AllNullDetails

\* C8: the document a public read returns for a published project without
\* child rows (one whose title and slug the schema admits) has four empty arrays and a details object of nulls.
C8_ChildlessProjectShape == [][read' # read => ChildlessShape']_vars

\* ---- C9
\* The array holds each value of the set exactly once.
HoldsEachOnce(array, values) ==
    /\ Len(array) = Cardinality(values)
    /\ {array[i] : i \in DOMAIN array} = values

OneDocumentPerProject ==
    read.kind = "get_projects"
    => \A row \in projects :
          row.is_published
          => /\ Cardinality({i \in DOMAIN read.data : read.data[i].id = row.id}) = 1
             /\ \A i \in DOMAIN read.data :
                   read.data[i].id = row.id
                   => /\ HoldsEachOnce(read.data[i].tech_stack,
                            {t.tech : t \in {t \in project_tech_stack :
                                                t.project_id = row.id}})
                      /\ HoldsEachOnce(read.data[i].steps,
                            {[title |-> x.title, text |-> x.description,
                              position |-> x.position] :
                                x \in {x \in project_steps : x.project_id = row.id}})
                      /\ HoldsEachOnce(read.data[i].results,
                            {[label |-> x.label, value |-> x.value] :
                                x \in {x \in project_results : x.project_id = row.id}})
                      /\ HoldsEachOnce(read.data[i].links,
                            {[label |-> x.label, url |-> x.url, icon |-> x.icon] :
                                x \in {x \in project_links : x.project_id = row.id}})

\* C9: the list read returns one document per published project, each of
\* whose four collections holds each distinct child value exactly once,
\* whatever the row counts of the other relations.
C9_OneDocumentNoDuplicates == [][read' # read => OneDocumentPerProject']_vars

\* ---- C10
\* Two finished authorized creates of distinct normalised slugs, with fields
\* the schema admits, neither slug that of a third project.
DistinctCreates(r1, r2) ==
    /\ r1 # r2
    /\ req[r1].kind = "create" /\ req[r2].kind = "create"
    /\ Authorized(req[r1].token) /\ Authorized(req[r2].token)
    /\ ProjectCreate(req[r1].title, req[r1].slug)
    /\ ProjectCreate(req[r2].title, req[r2].slug)
    /\ pc[r1] = "done" /\ pc[r2] = "done"
    /\ Normalized(req[r1].slug) # Normalized(req[r2].slug)
    /\ \A row \in projects :
          row.slug \in {Normalized(req[r1].slug), Normalized(req[r2].slug)}
          => row.id \in {resp[r1].project_id, resp[r2].project_id}

\* Both answered 200 with ids of their own, and both projects are stored.
BothCreatesSucceed ==
    \A r1 \in Reqs, r2 \in Reqs :
        DistinctCreates(r1, r2)
        => /\ resp[r1].status = 200 /\ resp[r2].status = 200
           /\ resp[r1].project_id # resp[r2].project_id
           /\ \E row \in projects : /\ row.id = resp[r1].project_id
                                    /\ row.slug = Normalized(req[r1].slug)
           /\ \E row \in projects : /\ row.id = resp[r2].project_id
                                    /\ row.slug = Normalized(req[r2].slug)

\* Each of the two projects is returned by the read of its slug.
BothRetrievable ==
    \A r1 \in Reqs, r2 \in Reqs : DistinctCreates(r1, r2) => Retrievable(r1)

\* C10: concurrent creates of distinct slugs both succeed, and each project,
\* once published, is returned by the read of its slug.
C10_ConcurrentCreatesRetrievable ==
    [][/\ BothCreatesSucceed'
       /\ read' # read => BothRetrievable']_vars

====
